---- MODULE Spec2Model ----
(***************************************************************************)
(* The retrieval-augmented answer pipeline of QA2.                         *)
(*                                                                         *)
(*   rag_retriever.py  RAGRetriever: search_similar_pairs, format_context, *)
(*                     generate_answer, generate_answer_stream,            *)
(*                     answer_question                                     *)
(*   rag_app.py        the Flask serving layer: /api/ask, /api/ask_stream  *)
(*   rag_config.py     configuration                                       *)
(*                                                                         *)
(* One request is followed from its arrival to the end of its response.    *)
(* RAGRetriever holds no mutable state besides its client handles, so      *)
(* requests do not interact and one request at a time shows every          *)
(* behaviour of a call.                                                    *)
(*                                                                         *)
(* Numbers: a similarity or a distance is an integer count of 1e-5, so     *)
(* One stands for 1.0 and round(x, 4) is a rounding to a multiple of 10.   *)
(* Text: a question is a sequence of characters.                           *)
(***************************************************************************)
EXTENDS Integers, Sequences, FiniteSets, TLC

\* ------------------------------------------------------------- bounds

\* Longest raw question text of a request.
MaxLen == 2
\* Most documents the collection holds.
MaxDocs == 3
\* Most chunks the remote model streams for one answer.
MaxChunks == 2

\* The longest ranking an index search on its own returns.
MaxHits == 3

\* The number of records of the qa_pairs table.
MaxRecords == 2

\* The number of dialog files in the directory.
MaxFiles == 2

\* The number of different question texts the chat monitors meet.
MaxTexts == 2

\* The number of rows of qa_pairs beyond which no further save_pair is started.
MaxRows == 3

\* ------------------------------------------------------ configuration

\* rag_config.TOP_K_RESULTS
TOP_K_RESULTS == 8

\* 1.0 in units of 1e-5.
One == 10 ^ 5

\* Values of rag_config.SIMILARITY_THRESHOLD (0.0 as shipped, and 0.5).
Thresholds == {0, One \div 2}

\* --------------------------------------------------------------- state

VARIABLES
  retriever,        \* rag_app.retriever: "None" or "ready"
  server,           \* rag_app as a process: "imported" (served by a WSGI
                    \* host, init_retriever never called), "main" (run as a
                    \* script, before init_retriever), "serving" or "exited"
  env,              \* what RAGRetriever.__init__ found: the storage path
                    \* exists, the API key is set
  collection,       \* the documents of the Qdrant collection
  threshold,        \* rag_config.SIMILARITY_THRESHOLD
  showSources,      \* rag_config.SHOW_SOURCE_PAIRS
  enableStreaming,  \* rag_config.ENABLE_STREAMING
  pc,               \* where the request is
  caller,           \* "ask", "ask_stream" or "core" (a direct call)
  body,             \* the JSON body of the HTTP request
  query,            \* answer_question's query
  useStreaming,     \* answer_question's use_streaming, resolved
  aqCalls,          \* calls of answer_question made for the request
  searchState,      \* "idle", "running", "done" or "raised"
  similarPairs,     \* answer_question's similar_pairs
  raised,           \* str(e) of the exception answer_question caught
  genCalls,         \* requests sent to the generative model
  connection,       \* the HTTP response of the streamed completion: "none",
                    \* "open" or "closed"
  remote,           \* what the generative model does at the first, second
                    \* and third blocking request of the call
  prompt,           \* the messages of the generation request
  result,           \* what answer_question returned
  stream,           \* the fragment generator: "none", "created", "open",
                    \* "exhausted" or "raised"
  chunksSeen,       \* chunks read from the remote stream
  fragments,        \* fragments the generator has yielded
  response,         \* the HTTP response of the handler
  events,           \* the events written to an event-stream response
  \* search_similar_pairs and format_context applied on their own
  hits,             \* the index's ranking for the query: (doc, score),
                    \* nearest first
  labK,             \* the argument k (0 when none is given)
  labKGiven,        \* the caller gave a k
  thr1,             \* a similarity threshold
  thr2,             \* another one
  found1,           \* the evidence list under thr1
  found2,           \* the evidence list under thr2
  formatted,        \* format_context of found1
  labPc,            \* "off", "start", "searched", "searched_again" or "formatted"
  \* api_client.OpenAIClient._make_request
  rPlan,            \* what the remote call does at each attempt
  rPc,              \* "off", "idle", "calling", "waiting", "returned" or "raised"
  rAttempt,         \* tenacity's attempt_number
  rResult,          \* the text returned or the exception raised to the caller
  \* rag_indexer.QAIndexer
  records,          \* the qa_pairs table: id -> (is_irrelevant, is_audited)
  indexAllPairs,    \* rag_config.INDEX_ALL_PAIRS
  excludeIrrelevant, \* rag_config.EXCLUDE_IRRELEVANT
  qdrant,           \* the points of the collection, in insertion order
  ixPc,             \* "off", "idle", "loaded", "prepared" or "finished"
  qaPairs,          \* what load_qa_pairs_from_db returned
  documents,        \* what prepare_documents returned
  runResult,        \* what run() returned: "none", "True" or "False"
  \* main.py, the extraction job
  processedFiles,   \* the processed_files table: file -> "none" (no row),
                    \* "ok" or "error" (a row, its error column set)
  jobPc,            \* "off", "idle", "loop" or "finished"
  reprocess,        \* args.reprocess of the run
  todo,             \* files_to_process, what is left of it
  lastRun,          \* file -> what the run did with it
  startRecorded,    \* the files that had a row when the run started
  \* the chat monitors' save_pair
  tgRows,           \* the dialog_id column of qa_pairs, in insertion order
  tgPc,             \* monitor -> "off", "idle", "check", "insert" or "done"
  tgId,             \* monitor -> the dialog_id of its call
  tgResult,         \* monitor -> what save_pair returned or raised
  tgErrors          \* a database call of a monitor has raised (logger.error)

config == <<retriever, server, env, collection, threshold, showSources, enableStreaming>>

call == <<caller, body, query, useStreaming, aqCalls>>

search == <<searchState, similarPairs>>

generation ==
  <<genCalls, remote, connection, prompt, stream, chunksSeen, fragments>>

output == <<result, response, events>>

vars == <<config, pc, call, search, raised, generation, output>>

labVars == <<hits, labK, labKGiven, thr1, thr2, found1, found2, formatted, labPc>>

retryVars == <<rPlan, rPc, rAttempt, rResult>>

indexVars ==
  <<records, indexAllPairs, excludeIrrelevant, qdrant, ixPc, qaPairs,
    documents, runResult>>

jobVars == <<processedFiles, jobPc, reprocess, todo, lastRun, startRecorded>>

tgVars == <<tgRows, tgPc, tgId, tgResult, tgErrors>>

\* The state of the batch jobs.
batchVars == <<indexVars, jobVars, tgVars>>

\* What a step of the serving layer, of the search on its own, of
\* _make_request leaves alone.
elsewhere == <<labVars, retryVars, batchVars>>

besidesLab == <<vars, retryVars, batchVars>>

besidesRetry == <<vars, labVars, batchVars>>

besidesIndex == <<vars, labVars, retryVars, jobVars, tgVars>>

besidesJob == <<vars, labVars, retryVars, indexVars, tgVars>>

besidesTg == <<vars, labVars, retryVars, indexVars, jobVars>>

allVars == <<vars, labVars, retryVars, batchVars>>

\* ---------------------------------------------------------------- text

Chars == {" ", "a"}

Strings == UNION {[1..n -> Chars] : n \in 0..MaxLen}

IsSpace(c) == c = " "

RECURSIVE LStrip(_)
LStrip(s) == IF s # <<>> /\ IsSpace(Head(s)) THEN LStrip(Tail(s)) ELSE s

RECURSIVE RStrip(_)
RStrip(s) ==
  IF s # <<>> /\ IsSpace(s[Len(s)]) THEN RStrip(SubSeq(s, 1, Len(s) - 1)) ELSE s

\* The question taken as sent, with no strip().
Strip_Missing(s) == s

\* str.strip(): leading and trailing whitespace removed, inner kept.
Strip(s) == RStrip(LStrip(s))

\* The JSON bodies a request may carry: none at all, an object without the
\* question key, an object with it.
Bodies ==
  {[kind |-> "no_json"], [kind |-> "object"]}
    \cup {[kind |-> "object", question |-> s] : s \in Strings}

NoBody == [kind |-> "none"]

\* data.get('question', '')
QuestionOf(b) == IF "question" \in DOMAIN b THEN b.question ELSE <<>>

\* -------------------------------------------------------------- search

Docs == 1..MaxDocs

Min(a, b) == IF a <= b THEN a ELSE b

\* The score the index reports for a document (the code reads it as a cosine
\* distance): 0.25004, 1.0 (similarity exactly 0), 1.2 (negative similarity),
\* and 0.6 + d * 1e-5 for further documents.
Score(d) ==
  CASE d = 1 -> 25004
    [] d = 2 -> One
    [] d = 3 -> 120000
    [] OTHER -> 60000 + d

RECURSIVE NearestFirst(_)
NearestFirst(S) ==
  IF S = {} THEN <<>>
  ELSE LET d == CHOOSE x \in S : \A y \in S : Score(x) <= Score(y)
       IN  <<[doc |-> d, score |-> Score(d)]>> \o NearestFirst(S \ {d})

\* vectorstore.similarity_search_with_score(query, k): the k nearest documents
\* of the collection, nearest first, each with its score.
SimilaritySearchWithScore(coll, k) ==
  LET all == NearestFirst(coll) IN SubSeq(all, 1, Min(k, Len(all)))

\* The nearest integer to x / 10, a tie going to the even one (x >= 0).
RoundDiv10(x) ==
  LET lo == x \div 10
      r  == x % 10
  IN  IF r < 5 THEN lo
      ELSE IF r > 5 THEN lo + 1
      ELSE IF lo % 2 = 0 THEN lo ELSE lo + 1

\* round(similarity, 4)
Round4(x) == RoundDiv10(x) * 10

\* One item of the evidence list: the document's fields and its similarity.
EvidenceItem(doc, similarity) ==
  [question |-> <<"question of", doc>>,
   answer |-> <<"answer of", doc>>,
   similarity_score |-> Round4(similarity),
   metadata |-> [id |-> doc]]

\* The loop with a strict comparison: similarity > SIMILARITY_THRESHOLD.
RECURSIVE FilterResults_Strict(_, _)
FilterResults_Strict(results, thr) ==
  IF results = <<>> THEN <<>>
  ELSE LET h == Head(results)
           similarity == One - h.score
           rest == FilterResults_Strict(Tail(results), thr)
       IN  IF similarity > thr
           THEN <<EvidenceItem(h.doc, similarity)>> \o rest
           ELSE rest

\* The loop with the comparison turned round: similarity <= SIMILARITY_THRESHOLD.
RECURSIVE FilterResults_KeepsBelow(_, _)
FilterResults_KeepsBelow(results, thr) ==
  IF results = <<>> THEN <<>>
  ELSE LET h == Head(results)
           similarity == One - h.score
           rest == FilterResults_KeepsBelow(Tail(results), thr)
       IN  IF similarity <= thr
           THEN <<EvidenceItem(h.doc, similarity)>> \o rest
           ELSE rest

\* The loop inserting each result at the front of filtered_results.
RECURSIVE FilterResults_Reversed(_, _)
FilterResults_Reversed(results, thr) ==
  IF results = <<>> THEN <<>>
  ELSE LET h == Head(results)
           similarity == One - h.score
           rest == FilterResults_Reversed(Tail(results), thr)
       IN  IF similarity >= thr
           THEN rest \o <<EvidenceItem(h.doc, similarity)>>
           ELSE rest

\* The loop without its test of the threshold.
RECURSIVE FilterResults_Unfiltered(_, _)
FilterResults_Unfiltered(results, thr) ==
  IF results = <<>> THEN <<>>
  ELSE LET h == Head(results)
           similarity == One - h.score
           rest == FilterResults_Unfiltered(Tail(results), thr)
       IN  <<EvidenceItem(h.doc, similarity)>> \o rest

\* The loop of search_similar_pairs over the index's results.
RECURSIVE FilterResults(_, _)
FilterResults(results, thr) ==
  IF results = <<>> THEN <<>>
  ELSE LET h == Head(results)
           similarity == One - h.score
           rest == FilterResults(Tail(results), thr)
       IN  IF similarity >= thr
           THEN <<EvidenceItem(h.doc, similarity)>> \o rest
           ELSE rest

\* k = k or rag_config.TOP_K_RESULTS (k = 0 stands for None too).
EffectiveK(k) == IF k = 0 THEN TOP_K_RESULTS ELSE k

SearchSimilarPairs(coll, k, thr) ==
  FilterResults(SimilaritySearchWithScore(coll, EffectiveK(k)), thr)

\* The first k entries of a ranking: what similarity_search_with_score(query,
\* k) returns of it.
TopK(ranked, k) == SubSeq(ranked, 1, Min(k, Len(ranked)))

\* search_similar_pairs over an index given by its ranking for the query.
SearchRanked(ranked, k, thr) ==
  FilterResults(TopK(ranked, EffectiveK(k)), thr)

\* ------------------------------------------------------------- context

NoContextLine == [text |-> "no relevant information"]

\* '{:.2%}' of a similarity score: a percentage with two decimals, in 0.01%.
Percent2(score) == RoundDiv10(score)

\* format_context with enumerate(pairs) counting from 0.
FormatContext_FromZero(pairs) ==
  IF pairs = <<>> THEN <<NoContextLine>>
  ELSE [i \in 1..Len(pairs) |->
          [n |-> i - 1,
           relevance |-> Percent2(pairs[i].similarity_score),
           question |-> pairs[i].question,
           answer |-> pairs[i].answer]]

FormatContext(pairs) ==
  IF pairs = <<>> THEN <<NoContextLine>>
  ELSE [i \in 1..Len(pairs) |->
          [n |-> i,
           relevance |-> Percent2(pairs[i].similarity_score),
           question |-> pairs[i].question,
           answer |-> pairs[i].answer]]

\* The messages list of a generation request.
Messages(q, context) ==
  [system |-> "SYSTEM_PROMPT", question |-> q, context |-> context]

NoPrompt == [system |-> "none"]

\* ------------------------------------------------------------- results

NoInfoMessage == "no relevant information found"

ErrorPrefix == "error while processing the request: "

ErrorMessage(e) == ErrorPrefix \o e

\* What the remote model answers, and how an index search or a generation
\* call fails (str(e) of the exception).
GenTexts == {"generated text"}

SearchErrors == {"index unavailable"}

GenErrors == {"authentication failed", "rate limit exceeded", "connection failed"}

\* What the generative model does at the first, second and third request of
\* one blocking call.
GenPlans ==
  {<<"generated text", "generated text", "generated text">>,
   <<"rate limit exceeded", "rate limit exceeded", "generated text">>,
   <<"rate limit exceeded", "rate limit exceeded", "rate limit exceeded">>,
   <<"authentication failed", "generated text", "generated text">>,
   <<"connection failed", "generated text", "generated text">>}

NoPlan == <<>>

\* delta.content of a streamed chunk.
NoneContent == "<None>"

Contents == {NoneContent, "He", "llo"}

NoResult == [pending |-> TRUE]

NoEvidenceResult(q) ==
  [success |-> FALSE,
   answer |-> NoInfoMessage,
   source_pairs |-> <<>>,
   query |-> q]

Shown(pairs, show) == IF show THEN pairs ELSE <<>>

\* A streaming result that carries the evidence whatever SHOW_SOURCE_PAIRS says.
StreamingResult_AlwaysShown(q, pairs, show) ==
  [success |-> TRUE,
   answer_stream |-> "generator",
   source_pairs |-> pairs,
   query |-> q,
   streaming |-> TRUE]

StreamingResult(q, pairs, show) ==
  [success |-> TRUE,
   answer_stream |-> "generator",
   source_pairs |-> Shown(pairs, show),
   query |-> q,
   streaming |-> TRUE]

BlockingResult(q, pairs, show, text) ==
  [success |-> TRUE,
   answer |-> text,
   source_pairs |-> Shown(pairs, show),
   query |-> q,
   streaming |-> FALSE]

\* An except branch that leaves the fragment sequence in the failure payload.
ErrorResult_KeepsStream(q, e) ==
  [success |-> FALSE,
   answer |-> ErrorMessage(e),
   answer_stream |-> "generator",
   source_pairs |-> <<>>,
   query |-> q,
   error |-> e]

\* An except branch that forgets to clear the evidence list.
ErrorResult_KeepsSources(q, e) ==
  [success |-> FALSE,
   answer |-> ErrorMessage(e),
   source_pairs |-> similarPairs,
   query |-> q,
   error |-> e]

ErrorResult(q, e) ==
  [success |-> FALSE,
   answer |-> ErrorMessage(e),
   source_pairs |-> <<>>,
   query |-> q,
   error |-> e]

\* ----------------------------------------------------------- responses

NoResponse == [status |-> 0]

JsonResponse(status, payload) == [status |-> status, json |-> payload]

EventStream == [status |-> 200, mimetype |-> "text/event-stream"]

NotInitialized == [success |-> FALSE, error |-> "RAG system is not initialized"]

EmptyQuestion == [success |-> FALSE, error |-> "the question must not be empty"]

HandlerError == [success |-> FALSE, error |-> "'NoneType' object has no attribute 'get'"]

SourcesEvent(pairs) == [type |-> "sources", data |-> pairs]

StartEvent == [type |-> "answer_start"]

ChunkEvent(c) == [type |-> "answer_chunk", data |-> c]

EndEvent == [type |-> "answer_end"]

ErrorEvent(msg) == [type |-> "error", data |-> msg]

DoneEvent == [type |-> "[DONE]"]

\* ------------------------------------------------------- initial state

\* Before init_retriever() has run.
NoEnv == [pathExists |-> "unknown", keySet |-> "unknown", error |-> "none"]

\* search_similar_pairs and format_context are not being applied on their own.
LabIdle ==
  /\ hits = <<>>
  /\ labK = 0
  /\ labKGiven = FALSE
  /\ thr1 = 0
  /\ thr2 = 0
  /\ found1 = <<>>
  /\ found2 = <<>>
  /\ formatted = <<>>
  /\ labPc = "off"

\* No _make_request is running.
RetryIdle ==
  /\ rPlan = <<>>
  /\ rPc = "off"
  /\ rAttempt = 0
  /\ rResult = "none"

\* The indexing job is not run.
IndexIdle ==
  /\ records = <<>>
  /\ indexAllPairs = FALSE
  /\ excludeIrrelevant = FALSE
  /\ qdrant = <<>>
  /\ ixPc = "off"
  /\ qaPairs = <<>>
  /\ documents = <<>>
  /\ runResult = "none"

\* The extraction job is not run.
JobIdle ==
  /\ processedFiles = <<>>
  /\ jobPc = "off"
  /\ reprocess = FALSE
  /\ todo = <<>>
  /\ lastRun = <<>>
  /\ startRecorded = {}

\* No chat monitor is run.
TgIdle ==
  /\ tgRows = <<>>
  /\ tgPc = <<>>
  /\ tgId = <<>>
  /\ tgResult = <<>>
  /\ tgErrors = FALSE

\* No batch job is run.
BatchIdle == IndexIdle /\ JobIdle /\ TgIdle

\* No request is being served.
CallIdle ==
  /\ pc = "idle"
  /\ caller = "none"
  /\ body = NoBody
  /\ query = <<>>
  /\ useStreaming = FALSE
  /\ aqCalls = 0
  /\ searchState = "idle"
  /\ similarPairs = <<>>
  /\ raised = ""
  /\ genCalls = 0
  /\ remote = NoPlan
  /\ connection = "none"
  /\ prompt = NoPrompt
  /\ result = NoResult
  /\ stream = "none"
  /\ chunksSeen = 0
  /\ fragments = <<>>
  /\ response = NoResponse
  /\ events = <<>>

\* The serving layer is not run: no process, an empty collection.
ServingOff ==
  /\ retriever = "None"
  /\ server = "exited"
  /\ env = NoEnv
  /\ collection = {}
  /\ threshold = 0
  /\ showSources = FALSE
  /\ enableStreaming = FALSE
  /\ CallIdle

Init ==
  /\ retriever = "None"
  /\ server \in {"imported", "main"}
  /\ env = NoEnv
  /\ collection \in SUBSET Docs
  /\ threshold \in Thresholds
  /\ showSources \in BOOLEAN
  /\ enableStreaming \in BOOLEAN
  /\ CallIdle
  /\ LabIdle
  /\ RetryIdle
  /\ BatchIdle

\* ------------------------------------------------------- construction

\* RAGRetriever.__init__ without its test of OPENAI_API_KEY.
RAGRetrieverInit_NoKeyCheck(pathExists, keySet) ==
  IF ~pathExists THEN "FileNotFoundError" ELSE "ok"

\* RAGRetriever.__init__: the error it raises, or "ok".
RAGRetrieverInit(pathExists, keySet) ==
  IF ~pathExists THEN "FileNotFoundError"
  ELSE IF ~keySet THEN "ValueError"
  ELSE "ok"

\* The construction, as init_retriever() saw it.
Constructed(pathExists, keySet) ==
  [pathExists |-> pathExists,
   keySet |-> keySet,
   error |-> RAGRetrieverInit(pathExists, keySet)]

\* What becomes of the process once init_retriever() has returned: the
\* __main__ block exits on False and starts the server on True; a host that
\* imported the module goes on serving.
AfterInit(srv, ok) ==
  IF srv = "main" THEN (IF ok THEN "serving" ELSE "exited") ELSE srv

\* init_retriever(): the global retriever is set only by a construction that
\* raised nothing.
InitRetriever ==
  \E pathExists \in BOOLEAN, keySet \in BOOLEAN :
    /\ pc = "idle"
    /\ server \in {"imported", "main"}
    /\ retriever = "None"
    /\ env' = Constructed(pathExists, keySet)
    /\ retriever' = IF env'.error = "ok" THEN "ready" ELSE "None"
    /\ server' = AfterInit(server, env'.error = "ok")
    /\ UNCHANGED <<elsewhere, collection, threshold, showSources,
                   enableStreaming, pc, call, search, raised, generation,
                   output>>

\* ------------------------------------------------------ answer_question

\* use_streaming if use_streaming is not None else rag_config.ENABLE_STREAMING
ResolveStreaming(us) == IF us = "None" THEN enableStreaming ELSE us = "True"

\* answer_question is called: its first statement has run.
EnterAnswerQuestion(c, q, us) ==
  /\ caller' = c
  /\ query' = q
  /\ useStreaming' = ResolveStreaming(us)
  /\ aqCalls' = aqCalls + 1
  /\ pc' = "aq_search"

\* answer_question returns res, and its caller goes on to its next stop:
\* /api/ask answers with the result as JSON, /api/ask_stream answers with an
\* event stream whose generator has not run yet, a direct caller holds the
\* result.
Returned(res) ==
  /\ result' = res
  /\ CASE caller = "ask" ->
            /\ response' = JsonResponse(200, res)
            /\ pc' = "done"
       [] caller = "ask_stream" ->
            /\ response' = EventStream
            /\ pc' = "sse_begin"
       [] OTHER ->
            /\ response' = response
            /\ pc' = "returned"

\* answer_question without its test of an empty evidence list.
AfterSearch_NoEmptyTest(pairs, streaming) ==
  IF streaming THEN "stream" ELSE "generate"

\* The branch answer_question takes once the search has returned.
AfterSearch(pairs, streaming) ==
  IF pairs = <<>> THEN "no_evidence"
  ELSE IF streaming THEN "stream"
  ELSE "generate"

\* generate_answer_stream as a plain function: the call sends the request.
GenerateAnswerStreamCall_Eager == [stream |-> "open", requests |-> 1]

\* Calling the generator function generate_answer_stream runs none of its
\* body: the generator is created, and no request is sent.
GenerateAnswerStreamCall == [stream |-> "created", requests |-> 0]

\* A generation started while the search is still out.
IssuesGeneration_DuringSearch(p) == p \in {"aq_searching", "aq_generate"}

\* Where a blocking generation request is sent from: generate_answer, called
\* after the search has returned and the context is built.
IssuesGeneration(p) == p = "aq_generate"

AQSearchStart ==
  /\ pc = "aq_search"
  /\ pc' = "aq_searching"
  /\ searchState' = "running"
  /\ UNCHANGED <<elsewhere, config, call, similarPairs, raised, generation, output>>

AQSearchReturn ==
  /\ pc = "aq_searching"
  /\ LET pairs == SearchSimilarPairs(collection, 0, threshold)
         g == GenerateAnswerStreamCall
     IN  /\ searchState' = "done"
         /\ similarPairs' = pairs
         /\ CASE AfterSearch(pairs, useStreaming) = "no_evidence" ->
                   /\ Returned(NoEvidenceResult(query))
                   /\ UNCHANGED <<generation, events>>
              [] AfterSearch(pairs, useStreaming) = "stream" ->
                   /\ prompt' = Messages(query, FormatContext(pairs))
                   /\ stream' = g.stream
                   /\ genCalls' = genCalls + g.requests
                   /\ Returned(StreamingResult(query, pairs, showSources))
                   /\ UNCHANGED <<remote, connection, chunksSeen, fragments, events>>
              [] OTHER ->
                   /\ prompt' = Messages(query, FormatContext(pairs))
                   /\ pc' = "aq_generate"
                   /\ UNCHANGED <<genCalls, remote, connection, stream, chunksSeen,
                                  fragments, output>>
  /\ UNCHANGED <<elsewhere, config, call, raised>>

AQSearchRaise ==
  \E e \in SearchErrors :
    /\ pc = "aq_searching"
    /\ searchState' = "raised"
    /\ raised' = e
    /\ Returned(ErrorResult(query, e))
    /\ UNCHANGED <<elsewhere, config, call, similarPairs, generation, events>>

AQGenerateStart ==
  /\ IssuesGeneration(pc)
  /\ genCalls' = genCalls + 1
  /\ IF remote = NoPlan THEN remote' \in GenPlans ELSE UNCHANGED remote
  /\ pc' = "aq_generating"
  /\ UNCHANGED <<elsewhere, config, call, search, raised, connection, prompt, stream, chunksSeen,
                 fragments, output>>

AQGenerateReturn ==
  \E text \in GenTexts :
    /\ pc = "aq_generating"
    /\ remote[genCalls] = text
    /\ Returned(BlockingResult(query, similarPairs, showSources, text))
    /\ UNCHANGED <<elsewhere, config, call, search, raised, generation, events>>

\* generate_answer with a failed request sent again, up to three requests.
AfterGenerationError_Retry(e, requests) ==
  IF requests < 3 THEN "retry" ELSE "fail"

\* What follows an exception of the request in generate_answer: nothing
\* catches it before the except clause of answer_question.
AfterGenerationError(e, requests) == "fail"

AQGenerateRaise ==
  \E e \in GenErrors :
    /\ pc = "aq_generating"
    /\ remote[genCalls] = e
    /\ IF AfterGenerationError(e, genCalls) = "retry"
       THEN /\ pc' = "aq_generate"
            /\ UNCHANGED <<raised, result, response>>
       ELSE /\ raised' = e
            /\ Returned(ErrorResult(query, e))
    /\ UNCHANGED <<elsewhere, config, call, search, generation, events>>

\* ------------------------------------------------------------ handlers

\* The head of both handlers: no retriever, an unusable body, an empty
\* question; or the question to pass on.
Admit(retr, b) ==
  IF retr = "None" THEN [go |-> FALSE, response |-> JsonResponse(500, NotInitialized)]
  ELSE IF b.kind = "no_json"
  THEN [go |-> FALSE, response |-> JsonResponse(500, HandlerError)]
  ELSE LET q == Strip(QuestionOf(b))
       IN  IF q = <<>>
           THEN [go |-> FALSE, response |-> JsonResponse(400, EmptyQuestion)]
           ELSE [go |-> TRUE, query |-> q]

Handle(c, us, b) ==
  /\ pc = "idle"
  /\ server \in {"imported", "serving"}
  /\ body' = b
  /\ LET a == Admit(retriever, b)
     IN  IF a.go
         THEN /\ EnterAnswerQuestion(c, a.query, us)
              /\ UNCHANGED response
         ELSE /\ caller' = c
              /\ response' = a.response
              /\ pc' = "done"
              /\ UNCHANGED <<query, useStreaming, aqCalls>>
  /\ UNCHANGED <<elsewhere, config, search, raised, generation, result, events>>

\* POST /api/ask
AskQuestion == \E b \in Bodies : Handle("ask", "False", b)

\* POST /api/ask_stream, up to the call of answer_question
AskQuestionStream == \E b \in Bodies : Handle("ask_stream", "True", b)

\* A direct call of answer_question on a constructed retriever, as
\* test_retriever makes.
CoreCall ==
  \E q \in Strings, us \in {"None", "True", "False"} :
    /\ pc = "idle"
    /\ retriever = "ready"
    /\ body' = NoBody
    /\ EnterAnswerQuestion("core", q, us)
    /\ UNCHANGED <<elsewhere, config, search, raised, generation, output>>

\* result.get('answer', <default>)
GetAnswer(res) == IF "answer" \in DOMAIN res THEN res.answer ELSE "error"

\* generate() of /api/ask_stream, first run: the sources event.
SseSources ==
  /\ pc = "sse_begin"
  /\ result.source_pairs # <<>>
  /\ events' = Append(events, SourcesEvent(result.source_pairs))
  /\ pc' = "sse_after_sources"
  /\ UNCHANGED <<elsewhere, config, call, search, raised, generation, result, response>>

\* generate(): answer_start on success, the error event otherwise.
SseBody ==
  /\ \/ pc = "sse_begin" /\ result.source_pairs = <<>>
     \/ pc = "sse_after_sources"
  /\ IF result.success
     THEN /\ events' = Append(events, StartEvent)
          /\ pc' = "sse_loop"
     ELSE /\ events' = Append(events, ErrorEvent(GetAnswer(result)))
          /\ pc' = "sse_after_body"
  /\ UNCHANGED <<elsewhere, config, call, search, raised, generation, result, response>>

\* generate(): the final sentinel; the generator ends.
SseDone ==
  /\ pc = "sse_after_body"
  /\ events' = Append(events, DoneEvent)
  /\ pc' = "done"
  /\ UNCHANGED <<elsewhere, config, call, search, raised, generation, result, response>>

\* A direct caller starts to iterate result['answer_stream'].
CorePull ==
  /\ pc = "returned"
  /\ "answer_stream" \in DOMAIN result
  /\ pc' = "consume"
  /\ UNCHANGED <<elsewhere, config, call, search, raised, generation, output>>

\* ------------------------------------------------ the fragment generator

\* The consumer is inside next() of the fragment generator.
Pulling == pc \in {"sse_loop", "consume"}

\* Where an exception out of the fragment generator leaves its consumer:
\* generate() of /api/ask_stream dies with it, a direct caller gets it.
Escaped == IF caller = "ask_stream" THEN "sse_aborted" ELSE "consumer_raised"

\* generate_answer_stream holds the stream in a local variable and has no
\* with, try/finally or close(): when its loop is left before the end, by an
\* exception or because the generator is dropped at its yield, the response
\* is closed or not as the client library and the garbage collector have it.
LeftBehind(conn) == {conn, "closed"}

\* The response once the loop `for chunk in stream` has run to the end of the
\* stream: the client library has read the body to its end and closed it.
AfterExit(how, conn) == IF how = "exhausted" THEN "closed" ELSE conn

\* The first next(): the body of generate_answer_stream starts, the request
\* is sent, and the remote stream opens or the call raises.
StreamOpen ==
  /\ Pulling
  /\ stream = "created"
  /\ genCalls' = genCalls + 1
  /\ \/ stream' = "open" /\ connection' = "open" /\ pc' = pc
     \/ stream' = "raised" /\ connection' = connection /\ pc' = Escaped
  /\ UNCHANGED <<elsewhere, config, call, search, raised, remote, prompt, chunksSeen,
                 fragments, output>>

\* One chunk of the remote stream: its content, unless None, is yielded, and
\* /api/ask_stream writes it as an answer_chunk event.
StreamChunk ==
  \E c \in Contents :
    /\ Pulling
    /\ stream = "open"
    /\ chunksSeen < MaxChunks
    /\ chunksSeen' = chunksSeen + 1
    /\ IF c = NoneContent
       THEN UNCHANGED <<fragments, events>>
       ELSE /\ fragments' = Append(fragments, c)
            /\ events' = IF caller = "ask_stream"
                         THEN Append(events, ChunkEvent(c))
                         ELSE events
    /\ UNCHANGED <<elsewhere, config, pc, call, search, raised, genCalls, remote, connection, prompt,
                   stream, result, response>>

\* The remote stream ends: the generator returns, and /api/ask_stream writes
\* answer_end.
StreamEnd ==
  /\ Pulling
  /\ stream = "open"
  /\ stream' = "exhausted"
  /\ connection' = AfterExit("exhausted", connection)
  /\ IF caller = "ask_stream"
     THEN /\ events' = Append(events, EndEvent)
          /\ pc' = "sse_after_body"
     ELSE /\ events' = events
          /\ pc' = "done"
  /\ UNCHANGED <<elsewhere, config, call, search, raised, genCalls, remote, prompt,
                 chunksSeen, fragments, result, response>>

\* The remote stream fails between chunks: the exception leaves the generator.
StreamFail ==
  /\ Pulling
  /\ stream = "open"
  /\ stream' = "raised"
  /\ connection' \in LeftBehind(connection)
  /\ pc' = Escaped
  /\ UNCHANGED <<elsewhere, config, call, search, raised, genCalls, remote, prompt,
                 chunksSeen, fragments, output>>

\* The consumer stops iterating while the remote stream is open: the client
\* of /api/ask_stream has gone and the server closes generate(), or a direct
\* caller breaks out of its loop. generate_answer_stream is left at its yield.
StreamAbandon ==
  /\ Pulling
  /\ stream = "open"
  /\ stream' = "abandoned"
  /\ connection' \in LeftBehind(connection)
  /\ pc' = IF caller = "ask_stream" THEN "sse_closed" ELSE "abandoned"
  /\ UNCHANGED <<elsewhere, config, call, search, raised, genCalls, remote, prompt,
                 chunksSeen, fragments, output>>

\* The request is over; the next one starts afresh.
Finish ==
  /\ pc \in {"done", "returned", "sse_aborted", "consumer_raised", "sse_closed",
            "abandoned"}
  /\ pc' = "idle"
  /\ caller' = "none"
  /\ body' = NoBody
  /\ query' = <<>>
  /\ useStreaming' = FALSE
  /\ aqCalls' = 0
  /\ searchState' = "idle"
  /\ similarPairs' = <<>>
  /\ raised' = ""
  /\ genCalls' = 0
  /\ remote' = NoPlan
  /\ connection' = "none"
  /\ prompt' = NoPrompt
  /\ result' = NoResult
  /\ stream' = "none"
  /\ chunksSeen' = 0
  /\ fragments' = <<>>
  /\ response' = NoResponse
  /\ events' = <<>>
  /\ UNCHANGED <<elsewhere, config>>

Next ==
  \/ InitRetriever
  \/ AskQuestion
  \/ AskQuestionStream
  \/ CoreCall
  \/ AQSearchStart
  \/ AQSearchReturn
  \/ AQSearchRaise
  \/ AQGenerateStart
  \/ AQGenerateReturn
  \/ AQGenerateRaise
  \/ SseSources
  \/ SseBody
  \/ SseDone
  \/ CorePull
  \/ StreamOpen
  \/ StreamChunk
  \/ StreamEnd
  \/ StreamFail
  \/ StreamAbandon
  \/ Finish

Spec == Init /\ [][Next]_vars

\* ------------------------- search_similar_pairs and format_context alone

\* Scores an index reports (read as cosine distances, 0 to 2): 0, 0.25,
\* 0.25004, 1.0 (similarity exactly 0), 1.2 and 2.0 (negative similarity).
Distances == {0, 25000, 25004, One, 120000, 2 * One}

\* Values of SIMILARITY_THRESHOLD between 0.0 and 1.0.
LabThresholds == {0, One \div 2, 74996, 75000, One}

\* The rankings an index returns: at most MaxHits documents, named by their
\* rank, by increasing score.
Rankings ==
  UNION {{[i \in 1..n |-> [doc |-> i, score |-> f[i]]] :
            f \in {g \in [1..n -> Distances] :
                     \A i \in 1..n : \A j \in i..n : g[i] <= g[j]}} :
         n \in 0..MaxHits}

InitSearch ==
  /\ ServingOff
  /\ RetryIdle
  /\ BatchIdle
  /\ hits \in Rankings
  /\ labKGiven \in BOOLEAN
  /\ labK \in IF labKGiven THEN 0..MaxHits ELSE {0}
  /\ thr1 \in LabThresholds
  /\ thr2 \in LabThresholds
  /\ found1 = <<>>
  /\ found2 = <<>>
  /\ formatted = <<>>
  /\ labPc = "start"

\* search_similar_pairs(query, k) with SIMILARITY_THRESHOLD = thr1.
LabSearch ==
  /\ labPc = "start"
  /\ found1' = SearchRanked(hits, labK, thr1)
  /\ labPc' = "searched"
  /\ UNCHANGED <<besidesLab, hits, labK, labKGiven, thr1, thr2, found2, formatted>>

\* The same call with SIMILARITY_THRESHOLD = thr2.
LabSearchAgain ==
  /\ labPc = "searched"
  /\ found2' = SearchRanked(hits, labK, thr2)
  /\ labPc' = "searched_again"
  /\ UNCHANGED <<besidesLab, hits, labK, labKGiven, thr1, thr2, found1, formatted>>

\* format_context(pairs) of the first evidence list.
LabFormat ==
  /\ labPc = "searched_again"
  /\ formatted' = FormatContext(found1)
  /\ labPc' = "formatted"
  /\ UNCHANGED <<besidesLab, hits, labK, labKGiven, thr1, thr2, found1, found2>>

NextSearch ==
  \/ LabSearch
  \/ LabSearchAgain
  \/ LabFormat

SpecSearch == InitSearch /\ [][NextSearch]_allVars

\* ------------------------------------------- api_client._make_request

\* config.MAX_RETRIES
MAX_RETRIES == 3

\* What chat.completions.create does at one attempt: it returns a completion,
\* or raises an exception of the openai package or some other one.
RemoteOutcomes ==
  {"text", "AuthenticationError", "RateLimitError", "APIConnectionError",
   "APIError", "Exception"}

\* The classes an exception is an instance of, in the openai package that
\* exports the OpenAI client class: RateLimitError and AuthenticationError
\* are APIStatusErrors, APIStatusError and APIConnectionError are APIErrors.
ClassesOf(x) ==
  CASE x = "AuthenticationError" ->
         {"AuthenticationError", "APIStatusError", "APIError", "Exception"}
    [] x = "RateLimitError" ->
         {"RateLimitError", "APIStatusError", "APIError", "Exception"}
    [] x = "APIConnectionError" ->
         {"APIConnectionError", "APIError", "Exception"}
    [] x = "APIError" -> {"APIError", "Exception"}
    [] OTHER -> {"Exception"}

\* retry_if_exception_type((APIError, APIConnectionError, RateLimitError))
RetryIfExceptionType(x) ==
  ClassesOf(x) \cap {"APIError", "APIConnectionError", "RateLimitError"} # {}

\* A stop condition that lets one more attempt through.
StopAfterAttempt_OneMore(attempt) == attempt > MAX_RETRIES

\* stop_after_attempt(config.MAX_RETRIES)
StopAfterAttempt(attempt) == attempt >= MAX_RETRIES

\* The try statement of _make_request: the first except clause that matches
\* logs the exception and raises it again.
ExceptClause(x) ==
  IF "AuthenticationError" \in ClassesOf(x) THEN [logged |-> "auth", raises |-> x]
  ELSE IF "RateLimitError" \in ClassesOf(x) THEN [logged |-> "rate", raises |-> x]
  ELSE IF "APIError" \in ClassesOf(x) THEN [logged |-> "api", raises |-> x]
  ELSE [logged |-> "unexpected", raises |-> x]

\* What the retry decorator does with an attempt that raised x: the exception
\* goes to the caller when it is not of a retried type, or (reraise=True)
\* when the attempts are used up; otherwise the call waits and runs again.
AfterAttempt(x, attempt) ==
  IF ~RetryIfExceptionType(x) THEN "raise"
  ELSE IF StopAfterAttempt(attempt) THEN "raise"
  ELSE "wait"

\* response.choices[0].message.content of the response to an attempt.
ContentOf(attempt) == "text " \o ToString(attempt)

InitRetry ==
  /\ ServingOff
  /\ LabIdle
  /\ BatchIdle
  /\ rPlan \in [1..MAX_RETRIES + 1 -> RemoteOutcomes]
  /\ rPc = "idle"
  /\ rAttempt = 0
  /\ rResult = "none"

\* A caller calls _make_request: the first attempt.
MakeRequestCall ==
  /\ rPc = "idle"
  /\ rAttempt' = 1
  /\ rPc' = "calling"
  /\ UNCHANGED <<besidesRetry, rPlan, rResult>>

\* The attempt's request is answered.
MakeRequestReturn ==
  /\ rPc = "calling"
  /\ rPlan[rAttempt] = "text"
  /\ rResult' = ContentOf(rAttempt)
  /\ rPc' = "returned"
  /\ UNCHANGED <<besidesRetry, rPlan, rAttempt>>

\* The attempt's request raises.
MakeRequestRaise ==
  /\ rPc = "calling"
  /\ rPlan[rAttempt] # "text"
  /\ LET x == ExceptClause(rPlan[rAttempt]).raises
     IN  IF AfterAttempt(x, rAttempt) = "raise"
         THEN /\ rResult' = x
              /\ rPc' = "raised"
         ELSE /\ rPc' = "waiting"
              /\ UNCHANGED rResult
  /\ UNCHANGED <<besidesRetry, rPlan, rAttempt>>

\* wait_exponential has elapsed: the next attempt.
MakeRequestRetry ==
  /\ rPc = "waiting"
  /\ rAttempt' = rAttempt + 1
  /\ rPc' = "calling"
  /\ UNCHANGED <<besidesRetry, rPlan, rResult>>

NextRetry ==
  \/ MakeRequestCall
  \/ MakeRequestReturn
  \/ MakeRequestRaise
  \/ MakeRequestRetry

SpecRetry == InitRetry /\ [][NextRetry]_allVars

\* ------------------------------------------------ rag_indexer.QAIndexer

RecordIds == 1..MaxRecords

\* The flags of a record: is_irrelevant (added by migration.py, so NULL in
\* older rows) and is_audited.
RecordFlags == [is_irrelevant : {"NULL", "0", "1"}, is_audited : {0, 1}]

\* The WHERE clause of load_qa_pairs_from_db.
Selected(rec, indexAll, exclude) ==
  /\ exclude => rec.is_irrelevant \in {"0", "NULL"}
  /\ ~indexAll => rec.is_audited = 1

\* One entry of qa_pairs: the fields of the row.
PairOf(id) ==
  [id |-> id,
   question |-> <<"question of", id>>,
   answer |-> <<"answer of", id>>,
   direction |-> <<"direction of", id>>]

\* The rows with an id in S, by id.
RECURSIVE RowsOf(_)
RowsOf(S) ==
  IF S = {} THEN <<>>
  ELSE LET id == CHOOSE x \in S : \A y \in S : x <= y
       IN  <<PairOf(id)>> \o RowsOf(S \ {id})

\* load_qa_pairs_from_db only testing is_audited when INDEX_ALL_PAIRS is on.
LoadQaPairsFromDb_AuditedWhenAll(recs, indexAll, exclude) ==
  RowsOf({id \in DOMAIN recs : Selected(recs[id], ~indexAll, exclude)})

LoadQaPairsFromDb(recs, indexAll, exclude) ==
  RowsOf({id \in DOMAIN recs : Selected(recs[id], indexAll, exclude)})

\* The Document of one pair: the text to embed and the metadata.
DocumentOf(pair) ==
  [page_content |-> <<"query:", pair.question, "passage:", pair.answer>>,
   metadata |-> [id |-> pair.id,
                 question |-> pair.question,
                 answer |-> pair.answer,
                 direction |-> pair.direction]]

PrepareDocuments(pairs) == [i \in 1..Len(pairs) |-> DocumentOf(pairs[i])]

\* Qdrant.from_documents without force_recreate: the documents are added to
\* the collection that exists.
FromDocuments_Append(points, docs) == points \o docs

\* Qdrant.from_documents(documents, force_recreate=True): the collection is
\* made anew and holds one point per document.
FromDocuments(points, docs) == docs

\* What a from_documents that raised leaves behind: the collection as it was,
\* or the new one with the documents uploaded so far.
RECURSIVE Prefixes(_)
Prefixes(docs) ==
  IF docs = <<>> THEN {<<>>}
  ELSE {docs} \cup Prefixes(SubSeq(docs, 1, Len(docs) - 1))

InitIndex ==
  /\ ServingOff
  /\ LabIdle
  /\ RetryIdle
  /\ JobIdle
  /\ TgIdle
  /\ records \in [RecordIds -> RecordFlags]
  /\ indexAllPairs \in BOOLEAN
  /\ excludeIrrelevant \in BOOLEAN
  /\ qdrant \in {PrepareDocuments(RowsOf(S)) : S \in SUBSET RecordIds}
  /\ ixPc = "idle"
  /\ qaPairs = <<>>
  /\ documents = <<>>
  /\ runResult = "none"

\* run(), step 1: load_qa_pairs_from_db; nothing to index ends the run.
IxLoad ==
  /\ ixPc = "idle"
  /\ qaPairs' = LoadQaPairsFromDb(records, indexAllPairs, excludeIrrelevant)
  /\ IF qaPairs' = <<>>
     THEN /\ runResult' = "False"
          /\ ixPc' = "finished"
     ELSE /\ runResult' = runResult
          /\ ixPc' = "loaded"
  /\ UNCHANGED <<besidesIndex, records, indexAllPairs, excludeIrrelevant,
                 qdrant, documents>>

\* run(), step 2: prepare_documents.
IxPrepare ==
  /\ ixPc = "loaded"
  /\ documents' = PrepareDocuments(qaPairs)
  /\ ixPc' = "prepared"
  /\ UNCHANGED <<besidesIndex, records, indexAllPairs, excludeIrrelevant,
                 qdrant, qaPairs, runResult>>

\* run(), steps 3 and 4: index_documents, the count is read and run returns
\* True.
IxIndex ==
  /\ ixPc = "prepared"
  /\ qdrant' = FromDocuments(qdrant, documents)
  /\ runResult' = "True"
  /\ ixPc' = "finished"
  /\ UNCHANGED <<besidesIndex, records, indexAllPairs, excludeIrrelevant,
                 qaPairs, documents>>

\* index_documents raises (the embedding or the storage fails): run logs the
\* exception and returns False.
IxIndexRaise ==
  /\ ixPc = "prepared"
  /\ qdrant' \in {qdrant} \cup (Prefixes(documents) \ {documents})
  /\ runResult' = "False"
  /\ ixPc' = "finished"
  /\ UNCHANGED <<besidesIndex, records, indexAllPairs, excludeIrrelevant,
                 qaPairs, documents>>

\* The process ends; the job may be run again.
IxDone ==
  /\ ixPc = "finished"
  /\ ixPc' = "idle"
  /\ qaPairs' = <<>>
  /\ documents' = <<>>
  /\ runResult' = "none"
  /\ UNCHANGED <<besidesIndex, records, indexAllPairs, excludeIrrelevant,
                 qdrant>>

\* POST /api/toggle_audit/<pair_id> of the audit interface, between two runs.
ToggleAudit ==
  \E id \in RecordIds :
    /\ ixPc = "idle"
    /\ records' = [records EXCEPT ![id].is_audited = 1 - @]
    /\ UNCHANGED <<besidesIndex, indexAllPairs, excludeIrrelevant, qdrant,
                   ixPc, qaPairs, documents, runResult>>

NextIndex ==
  \/ IxLoad
  \/ IxPrepare
  \/ IxIndex
  \/ IxIndexRaise
  \/ IxDone
  \/ ToggleAudit

SpecIndex == InitIndex /\ [][NextIndex]_allVars

\* ----------------------------------------- main.py, the extraction job

Files == 1..MaxFiles

\* What the body of the loop meets for one file: process_dialog returns a
\* result (with pairs, without, or success False) or raises, and the writes
\* to the database go through or raise.
FileOutcomes ==
  [dialog : {"pairs", "no pairs", "failed", "raised"}, db : {"ok", "raised"}]

NotAttempted == [dialog |-> "none", db |-> "none"]

\* The files of the directory with a name in S, sorted.
RECURSIVE Sorted(_)
Sorted(S) ==
  IF S = {} THEN <<>>
  ELSE LET f == CHOOSE x \in S : \A y \in S : x <= y
       IN  <<f>> \o Sorted(S \ {f})

\* db.is_file_processed(filename)
IsFileProcessed(table, f) == table[f] # "none"

\* files_to_process: the files without a row unless --reprocess, cut to
\* --limit when one is given.
FilesToProcess(table, re, limit) ==
  LET kept == IF re THEN Sorted(Files)
              ELSE Sorted({f \in Files : ~IsFileProcessed(table, f)})
  IN  IF limit # 0 THEN SubSeq(kept, 1, Min(limit, Len(kept))) ELSE kept

\* An else branch that records nothing for a result with success False.
RowAfter_FailedUnrecorded(row, o) ==
  IF o.dialog = "raised" \/ o.dialog = "failed" \/ o.db = "raised" THEN row
  ELSE "ok"

\* The row of a file after the body of the loop: mark_file_processed is
\* called for every result, with the error of a failed one; an exception out
\* of process_dialog, save_qa_pairs or mark_file_processed leaves the table
\* as it was.
RowAfter(row, o) ==
  IF o.dialog = "raised" \/ o.db = "raised" THEN row
  ELSE IF o.dialog = "failed" THEN "error"
  ELSE "ok"

InitJob ==
  /\ ServingOff
  /\ LabIdle
  /\ RetryIdle
  /\ IndexIdle
  /\ TgIdle
  /\ processedFiles = [f \in Files |-> "none"]
  /\ jobPc = "idle"
  /\ reprocess = FALSE
  /\ todo = <<>>
  /\ lastRun = [f \in Files |-> NotAttempted]
  /\ startRecorded = {}

\* main() up to the loop: the files are listed and filtered.
JobStart ==
  \E re \in BOOLEAN, limit \in 0..MaxFiles :
    /\ jobPc = "idle"
    /\ reprocess' = re
    /\ todo' = FilesToProcess(processedFiles, re, limit)
    /\ startRecorded' = {f \in Files : IsFileProcessed(processedFiles, f)}
    /\ lastRun' = [f \in Files |-> NotAttempted]
    /\ jobPc' = IF todo' = <<>> THEN "finished" ELSE "loop"
    /\ UNCHANGED <<besidesJob, processedFiles>>

\* One turn of the loop over files_to_process.
JobFile ==
  \E o \in FileOutcomes :
    /\ jobPc = "loop"
    /\ LET f == Head(todo)
       IN  /\ processedFiles' =
                [processedFiles EXCEPT ![f] = RowAfter(processedFiles[f], o)]
           /\ lastRun' = [lastRun EXCEPT ![f] = o]
    /\ todo' = Tail(todo)
    /\ jobPc' = IF todo' = <<>> THEN "finished" ELSE "loop"
    /\ UNCHANGED <<besidesJob, reprocess, startRecorded>>

\* KeyboardInterrupt inside the loop: break.
JobInterrupt ==
  /\ jobPc = "loop"
  /\ jobPc' = "finished"
  /\ UNCHANGED <<besidesJob, processedFiles, reprocess, todo, lastRun,
                 startRecorded>>

\* main() returns; the job may be run again.
JobExit ==
  /\ jobPc = "finished"
  /\ jobPc' = "idle"
  /\ todo' = <<>>
  /\ UNCHANGED <<besidesJob, processedFiles, reprocess, lastRun, startRecorded>>

NextJob ==
  \/ JobStart
  \/ JobFile
  \/ JobInterrupt
  \/ JobExit

SpecJob == InitJob /\ [][NextJob]_allVars

\* ------------------------------------------ the chat monitors' save_pair

\* tg/api/tg_monitor.py and tg/api/tg_monitor_realtime.py, two programs run
\* as processes of their own on the same database file.
Monitors == {"history", "realtime"}

\* The first 100 characters of a text; texts are told apart by them.
TgTexts == 1..MaxTexts

\* The prefix generate_dialog_id puts before the texts.
Prefix(m) == "tg"

\* generate_dialog_id: md5 of "tg:{question[:100]}:{answer[:100]}".
GenerateDialogId(m, question, answer) == <<Prefix(m), question, answer>>

\* is_pair_exists: SELECT id FROM qa_pairs WHERE dialog_id = ?
IsPairExists(rows, id) == \E i \in 1..Len(rows) : rows[i] = id

InitTg ==
  /\ ServingOff
  /\ LabIdle
  /\ RetryIdle
  /\ IndexIdle
  /\ JobIdle
  /\ tgRows = <<>>
  /\ tgPc = [m \in Monitors |-> "idle"]
  /\ tgId = [m \in Monitors |-> <<>>]
  /\ tgResult = [m \in Monitors |-> "none"]
  /\ tgErrors = FALSE

\* save_pair is called: the dialog_id is computed.
TgSavePair(m) ==
  \E question \in TgTexts, answer \in {1} :
    /\ tgPc[m] = "idle"
    /\ Len(tgRows) < MaxRows
    /\ tgId' = [tgId EXCEPT ![m] = GenerateDialogId(m, question, answer)]
    /\ tgResult' = [tgResult EXCEPT ![m] = "none"]
    /\ tgPc' = [tgPc EXCEPT ![m] = "check"]
    /\ UNCHANGED <<besidesTg, tgRows, tgErrors>>

\* if self.is_pair_exists(dialog_id): return False
TgCheck(m) ==
  /\ tgPc[m] = "check"
  /\ IF IsPairExists(tgRows, tgId[m])
     THEN /\ tgResult' = [tgResult EXCEPT ![m] = "False"]
          /\ tgPc' = [tgPc EXCEPT ![m] = "done"]
     ELSE /\ tgPc' = [tgPc EXCEPT ![m] = "insert"]
          /\ UNCHANGED tgResult
  /\ UNCHANGED <<besidesTg, tgRows, tgId, tgErrors>>

\* The SELECT of is_pair_exists raises: tg_monitor_realtime.py answers False
\* and save_pair goes on to insert, tg_monitor.py lets the exception out.
TgCheckRaise(m) ==
  /\ tgPc[m] = "check"
  /\ IF m = "realtime"
     THEN /\ tgPc' = [tgPc EXCEPT ![m] = "insert"]
          /\ UNCHANGED tgResult
     ELSE /\ tgResult' = [tgResult EXCEPT ![m] = "raised"]
          /\ tgPc' = [tgPc EXCEPT ![m] = "done"]
  /\ tgErrors' = TRUE
  /\ UNCHANGED <<besidesTg, tgRows, tgId>>

\* INSERT INTO qa_pairs, commit, return True.
TgInsert(m) ==
  /\ tgPc[m] = "insert"
  /\ tgRows' = Append(tgRows, tgId[m])
  /\ tgResult' = [tgResult EXCEPT ![m] = "True"]
  /\ tgPc' = [tgPc EXCEPT ![m] = "done"]
  /\ UNCHANGED <<besidesTg, tgId, tgErrors>>

\* The INSERT or the commit raises: rollback, return False.
TgInsertRaise(m) ==
  /\ tgPc[m] = "insert"
  /\ tgResult' = [tgResult EXCEPT ![m] = "False"]
  /\ tgPc' = [tgPc EXCEPT ![m] = "done"]
  /\ tgErrors' = TRUE
  /\ UNCHANGED <<besidesTg, tgRows, tgId>>

\* save_pair has returned; the monitor waits for the next message.
TgReturn(m) ==
  /\ tgPc[m] = "done"
  /\ tgPc' = [tgPc EXCEPT ![m] = "idle"]
  /\ UNCHANGED <<besidesTg, tgRows, tgId, tgResult, tgErrors>>

NextTg ==
  \E m \in Monitors :
    \/ TgSavePair(m)
    \/ TgCheck(m)
    \/ TgCheckRaise(m)
    \/ TgInsert(m)
    \/ TgInsertRaise(m)
    \/ TgReturn(m)

SpecTg == InitTg /\ [][NextTg]_allVars

\* ---------------------------------------------------------- properties

HasReturned == result # NoResult

\* C1: whenever the search of a call has returned an empty evidence list, no
\* request has been sent to the generative model (and no fragment generator
\* exists), and the call has returned success=false with the fixed sentinel
\* message and an empty source_pairs; in streaming and in blocking mode.
C1_NoEvidenceNoGeneration ==
  (searchState = "done" /\ similarPairs = <<>>) =>
    /\ genCalls = 0
    /\ stream = "none"
    /\ HasReturned
    /\ result.success = FALSE
    /\ result.answer = NoInfoMessage
    /\ result.source_pairs = <<>>

\* A non-empty collection whose documents all fall below the threshold, asked
\* in streaming mode.
C1_Witness ==
  /\ searchState = "done"
  /\ similarPairs = <<>>
  /\ collection # {}
  /\ useStreaming
  /\ HasReturned

\* C2: once a generation request has been sent, or is about to be sent from a
\* created fragment generator, the search of the call is done: it is never
\* running or yet to start, the evidence list is the complete search result,
\* and the request's prompt is built from that list.
C2_SearchBeforeGeneration ==
  (genCalls > 0 \/ stream # "none" \/ pc = "aq_generating") =>
    /\ searchState = "done"
    /\ similarPairs = SearchSimilarPairs(collection, 0, threshold)
    /\ prompt = Messages(query, FormatContext(similarPairs))

\* A blocking generation request is out.
C2_Witness ==
  /\ pc = "aq_generating"
  /\ genCalls = 1
  /\ searchState = "done"
  /\ Len(similarPairs) > 1

\* C3: a returned result is a success payload (success=true, either a
\* generated text or a fragment sequence but not both, no error detail) or a
\* failure payload (success=false, a message, no generated text and no fragment
\* sequence).
C3_ResultShape ==
  HasReturned =>
    LET keys == DOMAIN result
    IN  IF result.success
        THEN /\ "error" \notin keys
             /\ ("answer" \in keys) # ("answer_stream" \in keys)
             /\ "answer" \in keys => result.answer \in GenTexts
        ELSE /\ "answer" \in keys
             /\ result.answer \in
                  {NoInfoMessage} \cup {ErrorMessage(e) : e \in SearchErrors \cup GenErrors}
             /\ result.answer \notin GenTexts
             /\ "answer_stream" \notin keys

\* A failure payload of a streaming call whose search raised.
C3_Witness ==
  /\ HasReturned
  /\ result.success = FALSE
  /\ useStreaming
  /\ raised \in SearchErrors

\* C4: every result with success=false carries a message and an error detail,
\* and every failure body of /api/ask carries an error string.
C4_FailureCarriesError ==
  /\ (HasReturned /\ result.success = FALSE) =>
       {"answer", "error"} \subseteq DOMAIN result
  /\ (caller = "ask" /\ pc = "done" /\ response.json.success = FALSE) =>
       "error" \in DOMAIN response.json

\* C5: in blocking mode an error raised by the search or by the generation
\* call is caught: the call returns success=false, a message that embeds the
\* error's text, the error's text as the detail, and an empty source_pairs,
\* whatever evidence was found; no exception reaches the caller.
C5_BlockingErrorCaught ==
  ~useStreaming =>
    /\ pc \notin {"sse_aborted", "consumer_raised"}
    /\ raised # "" =>
         /\ HasReturned
         /\ result.success = FALSE
         /\ result.answer = ErrorPrefix \o raised
         /\ result.error = raised
         /\ result.source_pairs = <<>>

\* The generation call raised after evidence was found.
C5_Witness ==
  /\ ~useStreaming
  /\ raised \in GenErrors
  /\ similarPairs # <<>>
  /\ showSources
  /\ genCalls = 1
  /\ HasReturned

\* C6: a streaming call with evidence returns success=true and a fragment
\* sequence of which nothing is consumed: until its consumer pulls, the
\* generator is only created, no request has been sent and no chunk read.
C6_StreamReturnedUnconsumed ==
  (/\ useStreaming
   /\ searchState = "done"
   /\ similarPairs # <<>>
   /\ pc \in {"sse_begin", "sse_after_sources", "returned"}) =>
    /\ result.success = TRUE
    /\ "answer_stream" \in DOMAIN result
    /\ stream = "created"
    /\ genCalls = 0
    /\ chunksSeen = 0
    /\ fragments = <<>>

\* A streaming call has just returned to /api/ask_stream.
C6_Witness ==
  /\ pc = "sse_begin"
  /\ caller = "ask_stream"
  /\ stream = "created"
  /\ result.success = TRUE

\* C7: when the streaming generation call fails, no exception leaves the
\* fragment sequence's consumer, and the events of /api/ask_stream carry an
\* error event.
C7_StreamFailureSignalled ==
  stream = "raised" =>
    /\ pc \notin {"sse_aborted", "consumer_raised"}
    /\ caller = "ask_stream" =>
         \E i \in 1..Len(events) : events[i].type = "error"

\* An event stream that has ended: its generator finished or died.
StreamEnded ==
  /\ caller = "ask_stream"
  /\ response = EventStream
  /\ pc \in {"done", "sse_aborted"}

\* C8: every event sequence of /api/ask_stream that has started ends with the
\* sentinel [DONE].
C8_EndsWithDone ==
  StreamEnded =>
    /\ events # <<>>
    /\ events[Len(events)].type = "[DONE]"

\* The events after an optional leading sources event and before the sentinel.
AnswerEvents ==
  LET n == Len(events)
      first == IF n > 0 /\ events[1].type = "sources" THEN 2 ELSE 1
      last == IF n > 0 /\ events[n].type = "[DONE]" THEN n - 1 ELSE n
  IN  SubSeq(events, first, last)

\* answer_start, one answer_chunk per fragment in order, answer_end.
IsAnswerRun(evs) ==
  /\ Len(evs) = Len(fragments) + 2
  /\ evs[1] = StartEvent
  /\ evs[Len(evs)] = EndEvent
  /\ \A i \in 1..Len(fragments) : evs[i + 1] = ChunkEvent(fragments[i])

IsErrorRun(evs) == Len(evs) = 1 /\ evs[1].type = "error"

\* C9: an ended event sequence is an optional sources event, then either
\* answer_start, the fragments' answer_chunk events in order and answer_end,
\* or one error event; a sources event is written before the generation
\* request is sent.
C9_EventOrder ==
  /\ StreamEnded => IsAnswerRun(AnswerEvents) \/ IsErrorRun(AnswerEvents)
  /\ (caller = "ask_stream" /\ genCalls > 0 /\ result.source_pairs # <<>>) =>
       /\ events # <<>>
       /\ events[1] = SourcesEvent(result.source_pairs)

\* A question that is missing, empty or whitespace only.
IsBlank(b) ==
  /\ b.kind = "object"
  /\ \A i \in 1..Len(QuestionOf(b)) : QuestionOf(b)[i] = " "

\* C10: /api/ask and /api/ask_stream never call answer_question for a blank
\* question, which they answer with a 400 and success=false, nor while no
\* retriever is initialized, which they answer with an error.
C10_RejectedBeforeCore ==
  caller \in {"ask", "ask_stream"} =>
    /\ retriever = "None" =>
         /\ aqCalls = 0
         /\ response = JsonResponse(500, NotInitialized)
    /\ (retriever = "ready" /\ IsBlank(body)) =>
         /\ aqCalls = 0
         /\ response.status = 400
         /\ response.json.success = FALSE

\* A whitespace-only question sent to /api/ask_stream.
C10_Witness ==
  /\ caller = "ask_stream"
  /\ retriever = "ready"
  /\ Len(QuestionOf(body)) > 0
  /\ IsBlank(body)
  /\ response.status = 400

\* The source_pairs of a call whose search and generation raised nothing: a
\* function of the index, the threshold and SHOW_SOURCE_PAIRS alone.
EvidenceShown ==
  Shown(SearchSimilarPairs(collection, 0, threshold), showSources)

\* C11 as stated: once answer_question has returned after a search that
\* returned, its source_pairs is the same list in streaming and in blocking
\* mode, whatever the generation did.
C11_SameEvidenceWhateverGeneration ==
  (HasReturned /\ searchState = "done") => result.source_pairs = EvidenceShown

\* C11: once answer_question has returned, its source_pairs is the same list
\* in streaming and in blocking mode as long as nothing was raised before the
\* return; a blocking generation that raised leaves source_pairs empty.
C11_SameEvidenceUnlessRaised ==
  HasReturned =>
    result.source_pairs =
      IF searchState = "done" /\ raised = "" THEN EvidenceShown ELSE <<>>

\* A streaming call that returned evidence.
C11_Witness ==
  /\ HasReturned
  /\ useStreaming
  /\ Len(result.source_pairs) > 1

\* C17: a construction that found the index storage absent or the API key
\* unset raised an error, left no retriever behind, and answer_question is
\* not called afterwards: the process has exited, or it answers every request
\* with the not-initialized error.
C17_FailedConstructionServesNothing ==
  (env # NoEnv /\ (env.pathExists = FALSE \/ env.keySet = FALSE)) =>
    /\ env.error \in {"FileNotFoundError", "ValueError"}
    /\ retriever = "None"
    /\ server \in {"exited", "imported"}
    /\ aqCalls = 0
    /\ server = "exited" => (pc = "idle" /\ response = NoResponse)
    /\ pc = "done" => response = JsonResponse(500, NotInitialized)

\* A request answered after a construction that found no API key.
C17_Witness ==
  /\ env # NoEnv
  /\ env.pathExists = TRUE
  /\ env.keySet = FALSE
  /\ caller = "ask"
  /\ pc = "done"

\* C18: a blocking call whose first two requests meet a rate limit and whose
\* third would be answered returns success=true after three requests.
C18_RetriedToSuccess ==
  (HasReturned /\ remote = <<"rate limit exceeded", "rate limit exceeded",
                             "generated text">>) =>
    /\ result.success
    /\ genCalls = 3

\* C19: a blocking call whose request meets an authentication error returns
\* success=false after that one request.
C19_AuthFailsAtOnce ==
  (HasReturned /\ remote # NoPlan /\ remote[1] = "authentication failed") =>
    /\ result.success = FALSE
    /\ result.error = "authentication failed"
    /\ genCalls = 1

\* A blocking call returned after an authentication error, a second request
\* would have been answered.
C19_Witness ==
  /\ HasReturned
  /\ remote = <<"authentication failed", "generated text", "generated text">>
  /\ result.success = FALSE

\* The candidates of the search: the k nearest entries of the ranking.
Candidates == TopK(hits, EffectiveK(labK))

\* The ranks of the candidates whose similarity reaches thr.
Qualifying(thr) ==
  {i \in 1..Len(Candidates) : One - Candidates[i].score >= thr}

\* The documents of an evidence list.
IdsOf(pairs) == {pairs[j].metadata.id : j \in 1..Len(pairs)}

\* a is b with some entries left out, the others in b's order.
IsSubsequence(a, b) ==
  /\ Len(a) <= Len(b)
  /\ \E f \in [1..Len(a) -> 1..Len(b)] :
       /\ \A i \in 1..Len(a) : a[i] = b[f[i]]
       /\ \A i \in 1..Len(a) : \A j \in 1..Len(a) : i < j => f[i] < f[j]

\* C12: the evidence list holds each candidate whose similarity is at or above
\* the threshold once, and no candidate below it; it is empty when none
\* qualifies.
C12_ExactlyAtOrAboveThreshold ==
  labPc # "start" =>
    /\ IdsOf(found1) = {Candidates[i].doc : i \in Qualifying(thr1)}
    /\ Len(found1) = Cardinality(Qualifying(thr1))
    /\ Qualifying(thr1) = {} => found1 = <<>>

\* A candidate with similarity equal to the threshold is returned, one below
\* it is dropped.
C12_Witness ==
  /\ labPc = "searched"
  /\ thr1 = 74996
  /\ \E j \in 1..Len(found1) : found1[j].similarity_score = 75000
  /\ \E i \in 1..Len(Candidates) : Candidates[i].score = One
  /\ Len(found1) < Len(Candidates)

\* C13: with thr1 < thr2, the evidence under thr2 is a subsequence of the
\* evidence under thr1 for the same ranking and k.
C13_HigherThresholdSubsequence ==
  (labPc \in {"searched_again", "formatted"} /\ thr1 < thr2) =>
    /\ IsSubsequence(found2, found1)
    /\ IdsOf(found2) \subseteq IdsOf(found1)

\* The higher threshold drops some of the evidence and keeps some.
C13_Witness ==
  /\ labPc = "searched_again"
  /\ thr1 < thr2
  /\ found2 # <<>>
  /\ Len(found2) < Len(found1)

\* C14: in an evidence list the similarity scores do not increase with the
\* index, and the items are in the order of the ranking.
C14_ScoresNonIncreasing ==
  labPc # "start" =>
    \A i \in 1..Len(found1) : \A j \in 1..Len(found1) :
      i < j =>
        /\ found1[i].similarity_score >= found1[j].similarity_score
        /\ found1[i].metadata.id < found1[j].metadata.id

\* Two items with falling scores, after a candidate was dropped.
C14_Witness ==
  /\ labPc = "searched"
  /\ Len(found1) >= 2
  /\ found1[1].similarity_score > found1[2].similarity_score
  /\ Len(found1) < Len(Candidates)

\* C15: every similarity score of an evidence list is between 0 and 1.
C15_SimilarityInUnitInterval ==
  \A pairs \in {found1, found2} : \A j \in 1..Len(pairs) :
    /\ pairs[j].similarity_score >= 0
    /\ pairs[j].similarity_score <= One

\* Threshold 0.0, a candidate at distance 2.0 dropped, candidates with
\* similarity 1 and 0 returned.
C15_Witness ==
  /\ labPc = "searched"
  /\ thr1 = 0
  /\ \E i \in 1..Len(Candidates) : Candidates[i].score = 2 * One
  /\ \E j \in 1..Len(found1) : found1[j].similarity_score = One
  /\ \E j \in 1..Len(found1) : found1[j].similarity_score = 0

\* C16: format_context yields the sentinel for an empty list and otherwise one
\* block per item, numbered from 1 in the order of the list, with the item's
\* question, answer and similarity as a percentage; never nothing.
C16_FormatContextBlocks ==
  labPc = "formatted" =>
    /\ formatted # <<>>
    /\ found1 = <<>> => formatted = <<NoContextLine>>
    /\ found1 # <<>> =>
         /\ Len(formatted) = Len(found1)
         /\ \A i \in 1..Len(found1) :
              /\ formatted[i].n = i
              /\ formatted[i].question = found1[i].question
              /\ formatted[i].answer = found1[i].answer
              /\ formatted[i].relevance * 10 - found1[i].similarity_score \in -5..5

\* A context of two blocks or more.
C16_Witness ==
  /\ labPc = "formatted"
  /\ Len(found1) >= 2
  /\ formatted[2].n = 2

\* C20: an AuthenticationError of the first attempt reaches the caller of
\* _make_request after that one attempt, and an attempt is run again only
\* after a rate-limit, connection or API error.
C20_AuthenticationNeverRetried ==
  /\ (rAttempt >= 1 /\ rPlan[1] = "AuthenticationError") =>
       /\ rAttempt = 1
       /\ rPc \in {"calling", "raised"}
       /\ rPc = "raised" => rResult = "AuthenticationError"
  /\ \A i \in 1..(rAttempt - 1) :
       rPlan[i] \in {"RateLimitError", "APIConnectionError", "APIError"}

Transient == {"RateLimitError", "APIConnectionError", "APIError"}

\* C21: _make_request never makes more than MAX_RETRIES attempts; when every
\* attempt met a transient error the caller gets the error of the last one
\* after MAX_RETRIES attempts; an answered attempt ends the call, which
\* returns that attempt's text.
C21_BoundedRetries ==
  /\ rAttempt <= MAX_RETRIES
  /\ (rPc = "raised" /\ \A i \in 1..rAttempt : rPlan[i] \in Transient) =>
       /\ rAttempt = MAX_RETRIES
       /\ rResult = rPlan[MAX_RETRIES]
  /\ rPc = "returned" =>
       /\ rPlan[rAttempt] = "text"
       /\ rResult = ContentOf(rAttempt)
       /\ \A i \in 1..(rAttempt - 1) : rPlan[i] # "text"
  /\ (rAttempt >= 1 /\ rPlan[rAttempt] = "text") => rPc \in {"calling", "returned"}

\* Three different transient errors, the last one raised to the caller while
\* a fourth attempt would have been answered.
C21_Witness ==
  /\ rPc = "raised"
  /\ rPlan = <<"RateLimitError", "APIConnectionError", "APIError", "text">>
  /\ rResult = "APIError"

\* The ids of a list of pairs.
LoadedIds == {qaPairs[i].id : i \in 1..Len(qaPairs)}

NotIrrelevant(id) == records[id].is_irrelevant # "1"

Audited(id) == records[id].is_audited = 1

\* C22 as stated: whatever the two options, a record is loaded exactly when
\* it is not marked irrelevant and INDEX_ALL_PAIRS is on or it is audited.
C22_LoadedIffNotIrrelevant ==
  ixPc \in {"loaded", "prepared", "finished"} =>
    LoadedIds =
      {id \in RecordIds : NotIrrelevant(id) /\ (indexAllPairs \/ Audited(id))}

\* The records load_qa_pairs_from_db selects: EXCLUDE_IRRELEVANT off lets the
\* records marked irrelevant through.
EligibleIds ==
  {id \in RecordIds :
     /\ ~excludeIrrelevant \/ NotIrrelevant(id)
     /\ indexAllPairs \/ Audited(id)}

\* C22: a record is loaded exactly when EXCLUDE_IRRELEVANT is off or it is
\* not marked irrelevant, and INDEX_ALL_PAIRS is on or it is audited; each
\* loaded record once.
C22_LoadedIffSelected ==
  ixPc \in {"loaded", "prepared", "finished"} =>
    /\ LoadedIds = EligibleIds
    /\ Len(qaPairs) = Cardinality(EligibleIds)

\* Audited-only loading that left out an unaudited record and one marked
\* irrelevant, and loaded an audited one whose is_irrelevant is NULL.
C22_Witness ==
  /\ ixPc = "loaded"
  /\ ~indexAllPairs
  /\ excludeIrrelevant
  /\ \E id \in LoadedIds : records[id].is_irrelevant = "NULL"
  /\ \E id \in RecordIds : ~NotIrrelevant(id) \/ ~Audited(id)

C24_NoStaleDocument ==
  (ixPc = "finished" /\ (runResult = "True" \/ qaPairs = <<>>)) =>
    \A i \in 1..Len(qdrant) : qdrant[i].metadata.id \in EligibleIds

\* The k the caller asked for: their value, the configured one when none.
RequestedK == IF labKGiven THEN labK ELSE TOP_K_RESULTS

\* C25: search_similar_pairs asks the index for the caller's k, 0 included,
\* or for TOP_K_RESULTS when no k is given, and returns no more items than
\* that.
C25_AtMostRequestedK ==
  labPc # "start" =>
    /\ EffectiveK(labK) = RequestedK
    /\ Len(found1) <= RequestedK

\* C27: answer_question("") whose search returned ends in the no-evidence
\* result and sends no request to the generative model.
C27_EmptyQueryNoEvidence ==
  (caller = "core" /\ HasReturned /\ query = <<>> /\ searchState = "done") =>
    /\ similarPairs = <<>>
    /\ result = NoEvidenceResult(<<>>)
    /\ genCalls = 0

\* C26: once the loop over the remote stream has been left, at the end of
\* the stream, by the consumer giving up or by an exception, the response of
\* the streamed completion is closed.
C26_StreamClosedOnEveryExit ==
  (stream \in {"exhausted", "abandoned", "raised"} /\ chunksSeen > 0) =>
    connection = "closed"

\* The text is the detail or a message built around it.
Embeds(text, detail) == \E prefix \in {"", ErrorPrefix} : text = prefix \o detail

\* C28: after a generation failure of the authentication or connection
\* class, the answer that /api/ask returns and the error events that
\* /api/ask_stream writes do not hold the exception's text.
C28_NoErrorDetailShown ==
  raised \in {"authentication failed", "connection failed"} =>
    /\ (caller = "ask" /\ pc = "done") => ~Embeds(response.json.answer, raised)
    /\ caller = "ask_stream" =>
         \A i \in 1..Len(events) :
           events[i].type = "error" => ~Embeds(events[i].data, raised)

\* The files the run has passed to process_dialog.
Attempted == {f \in Files : lastRun[f] # NotAttempted}

\* process_dialog returned a result for the file.
GaveResult(f) == lastRun[f].dialog \in {"pairs", "no pairs", "failed"}

RECURSIVE RowsWith(_, _)
RowsWith(rows, id) ==
  IF rows = <<>> THEN 0
  ELSE (IF Head(rows) = id THEN 1 ELSE 0) + RowsWith(Tail(rows), id)

\* C30: as long as no database call has raised, qa_pairs holds at most one
\* row per dialog_id, also when the save_pair calls of two monitors run at
\* the same time.
C30_OneRecordPerDialogId ==
  ~tgErrors =>
    \A i \in 1..Len(tgRows) : RowsWith(tgRows, tgRows[i]) <= 1

====
